---- MODULE Spec2Model ----
(***************************************************************************)
(* Model of the LLAMBO sampler package of optunahub-registry:              *)
(*   package/samplers/llambo/llambo/generative_sm.py  (LLMGenerativeSM)    *)
(*   package/samplers/llambo/sampler_base.py          (Sampler)            *)
(*                                                                         *)
(* A query round is select_query_point -> _evaluate_candidate_points ->    *)
(* _predict -> _generate_concurrently -> _async_generate, run by           *)
(* asyncio.run on one event loop.  The event loop is modelled step by      *)
(* step: a task that is created is put on the FIFO ready queue, a step of  *)
(* a task runs until its next suspension point.  _async_generate holds no  *)
(* await, so one step of a task is the whole model call.                   *)
(***************************************************************************)
EXTENDS Integers, Sequences, FiniteSets, TLC

\* ------------------------------------------------------------------ bounds
MaxCand == 6          \* largest candidate table of a round
MaxTemplates == 3     \* largest number of prompt templates of a round
MaxQueries == 6       \* largest number of (template, candidate) pairs of a round
MaxTime == 90         \* the clock stops here
TickStep == 30        \* the clock advances in steps of this size
SmallLimit == 2       \* max_requests of the small rate limiter handed to __init__
RateCand == 3         \* largest candidate table of a round of SpecRate
MaxTrials == 4        \* trials of one run of the study
MaxInitial == 3       \* largest n_initial_samples
SamplerCand == 2      \* num_candidates of the sampler
MaxExp == 2           \* a log-scaled value is one of 10^0 .. 10^MaxExp
MaxResponses == 2     \* longest list of raw responses handed to process_response
MaxTokens == 2        \* longest response text, in tokens
MaxRows == 2          \* largest configuration table handed to warp on its own
MaxObs == 3           \* largest observed table handed to prepare_configurations
MaxFval == 3          \* fitness values are 1 .. MaxFval

\* ------------------------------------------------------- program constants
ChunkSize == 5               \* generative_sm.py:242
PlaceholderTokens == 1000    \* generative_sm.py:134
DefaultMaxTokens == 240000   \* generative_sm.py:86
DefaultTimeFrame == 60       \* generative_sm.py:87
DefaultMaxRequests == 2900   \* generative_sm.py:88
DefaultNGens == 10           \* sampler_base.py:22

VARIABLES
    n_templates,          \* self.n_templates: number of prompt templates
    n_gens,               \* self.n_gens
    hyperparameter_constraints, \* task_context["hyperparameter_constraints"]: name -> scale
    rate_limiter,         \* self.rate_limiter: its configuration and its window
    input_candidates,     \* candidate_configs as handed to select_query_point
    candidate_configs,    \* the local candidate_configs of select_query_point
    query_examples,       \* query examples of the round, one per candidate
    pc,                   \* where the round is
    chunk_start,          \* i of the loop of _predict
    tasks,                \* the tasks of the chunk in flight, in creation order
    all_preds,            \* all_preds of _predict
    bool_pred_returned,   \* bool_pred_returned of _predict
    tot_cost,             \* tot_cost of _predict
    tot_tokens,           \* tot_tokens of _predict
    mean_probs,           \* returned by _predict
    success_rate,         \* returned by _predict
    best_point_index,     \* np.argmax(pred_probs)
    best_point,           \* the row select_query_point returns
    error,                \* the exception that left select_query_point, if any
    llm_calls,            \* every call OpenAI_instance.ask received, in order
    now,                  \* the clock (time.time())
    n_initial_samples,    \* Sampler.n_initial_samples
    search_space,         \* Sampler.search_space: "given" at construction, or "none"
    init_configs,         \* Sampler.init_configs, once the attribute is set
    LLAMBO_instance,      \* Sampler.LLAMBO_instance with its observed tables
    host_pc,              \* where the host framework is in its trial loop
    trial,                \* the trial being run
    study_trials,         \* the finished trials of the study, in order
    sampler_error,        \* the exception that left sample_relative, if any
    fn,                   \* the function applied on its own, and how far it is
    arg,                  \* the argument it was applied to
    ret                   \* what it returned

engine_vars == <<n_templates, n_gens, hyperparameter_constraints, rate_limiter,
                 input_candidates, candidate_configs, query_examples, pc,
                 chunk_start, tasks, all_preds, bool_pred_returned, tot_cost,
                 tot_tokens, mean_probs, success_rate, best_point_index,
                 best_point, error, llm_calls, now>>

sampler_vars == <<n_initial_samples, search_space, init_configs, LLAMBO_instance,
                  host_pc, trial, study_trials, sampler_error>>

fn_vars == <<fn, arg, ret>>

vars == <<engine_vars, sampler_vars, fn_vars>>

\* --------------------------------------------------------------- numbers
\* A float is NaN or a fraction num/den (den > 0).
NaN == [nan |-> TRUE, num |-> 0, den |-> 1]
Frac(n, d) == [nan |-> FALSE, num |-> n, den |-> d]
IsNaN(x) == x.nan
FracEq(x, y) == IF x.nan \/ y.nan THEN x.nan /\ y.nan
                ELSE x.num * y.den = y.num * x.den
FracLess(x, y) == ~x.nan /\ ~y.nan /\ x.num * y.den < y.num * x.den

RECURSIVE SumSeq(_)
SumSeq(s) == IF s = <<>> THEN 0 ELSE Head(s) + SumSeq(Tail(s))

Min(a, b) == IF a < b THEN a ELSE b

\* ------------------------------------------------------ the model's answers
\* A response text is a sequence of tokens.  "## 1 ##", "## 0 ##" and "## . ##"
\* are the tokens the pattern r"## (-?[\d.]+) ##" matches; "word" is any other
\* text.
DelimitedTokens == {"## 1 ##", "## 0 ##", "## . ##"}
Text(toks) == [isstr |-> TRUE, toks |-> toks]
NonText == [isstr |-> FALSE, toks |-> <<>>]      \* None, a dict, np.nan, ...
\* What OpenAI_instance.ask may return as resp: a text with one number, a text
\* with none, a text whose one match is no float literal, or a non-text payload.
Responses == { Text(<<"## 1 ##">>), Text(<<"## 0 ##">>), Text(<<"word">>),
               Text(<<"## . ##">>), NonText }
\* The cost ask reports for a call: it grows with the prompt, here with the
\* index of the template, so the calls of one round differ in cost.
CallCost(template) == template

\* re.findall(r"## (-?[\d.]+) ##", raw_response): the captured groups, in order
Group(tok) == CASE tok = "## 1 ##" -> "1"
                [] tok = "## 0 ##" -> "0"
                [] tok = "## . ##" -> "."
FindAll(raw_response) ==
    LET hits == SelectSeq(raw_response.toks, LAMBDA tok : tok \in DelimitedTokens)
    IN  [k \in 1..Len(hits) |-> Group(hits[k])]

\* float(s): a number, or ValueError for a group that is no float literal
FloatRaises(s) == s \notin {"1", "0"}
Float(s) == IF s = "1" THEN Frac(1, 1) ELSE Frac(0, 1)

\* process_response, element by element
PredOf(raw_response) ==
    IF raw_response.isstr
    THEN LET gen_pred == FindAll(raw_response)
         IN  IF Len(gen_pred) = 1 THEN Float(gen_pred[1]) ELSE NaN
    ELSE NaN
process_response(all_raw_response) ==
    [k \in 1..Len(all_raw_response) |-> PredOf(all_raw_response[k])]
\* process_response raises ValueError at float(gen_pred[0])
ProcessRaises(all_raw_response) ==
    \E k \in 1..Len(all_raw_response) :
        /\ all_raw_response[k].isstr
        /\ Len(FindAll(all_raw_response[k])) = 1
        /\ FloatRaises(FindAll(all_raw_response[k])[1])

\* ----------------------------------------------------------- warp / unwarp
Params == {"lr", "depth"}
Log10(v) == CHOOSE k \in 0..MaxExp : 10^k = v
Pow10(k) == 10^k
WarpRow(config) ==
    [p \in Params |-> IF hyperparameter_constraints[p] = "log"
                      THEN Log10(config[p]) ELSE config[p]]
\* an unwarp that finds no field log-scaled (it reads constraint[0], the dtype)
UnwarpRowNoLog(config) == [p \in Params |-> config[p]]
\* lines 405-408
UnwarpRow(config) ==
    [p \in Params |-> IF hyperparameter_constraints[p] = "log"
                      THEN Pow10(config[p]) ELSE config[p]]
_warp_candidate_points(configurations) ==
    [k \in 1..Len(configurations) |-> WarpRow(configurations[k])]
_unwarp_candidate_points(configurations) ==
    [k \in 1..Len(configurations) |-> UnwarpRow(configurations[k])]

\* A candidate table of n distinct rows; "lr" takes positive values only
\* (the low bound of a log-scaled distribution is positive).
CandidateTable(n) ==
    [k \in 1..n |-> [lr |-> 10^(k % (MaxExp + 1)), depth |-> k]]

\* ------------------------------------------------- _generate_concurrently
\* lines 160-165: one coroutine per (template, query example of the chunk),
\* template-major, each wrapped in a task
\* a chunk that runs to the end of the list: the slice without its upper end
ChunkToEnd(examples, i) == SubSeq(examples, i + 1, Len(examples))
\* query_examples[i : i + 5]
Chunk(examples, i) == SubSeq(examples, i + 1, Min(i + ChunkSize, Len(examples)))
CreateTasks(templates, query_chunk) ==
    [k \in 1..(templates * Len(query_chunk)) |->
        [template  |-> ((k - 1) \div Len(query_chunk)) + 1,
         query_idx |-> (k - 1) % Len(query_chunk),
         Q         |-> query_chunk[((k - 1) % Len(query_chunk)) + 1].Q,
         status    |-> "created",
         resp      |-> NonText,
         tot_cost  |-> 0,
         tot_tokens |-> 0]]

\* lines 166-172: results[query_idx].append([resp, tot_cost, tot_tokens]) for
\* every response, in the order of the tasks
\* a regrouping that ignores query_idx: every response lands in the first slot
ResultSlotStale(response) == 1
\* the regrouping of the code: query_idx is 0-based, slots are 1-based here
ResultSlot(response) == response.query_idx + 1
Regroup(llm_response, n) ==
    [slot \in 1..n |->
        LET mine == SelectSeq(llm_response, LAMBDA r : ResultSlot(r) = slot)
        IN  [k \in 1..Len(mine) |->
                [resp |-> mine[k].resp, tot_cost |-> mine[k].tot_cost,
                 tot_tokens |-> mine[k].tot_tokens]]]

\* ---------------------------------------------------------------- _predict
\* lines 255-266: the raw responses of one candidate
AllRawResponse(sample_response) ==
    [k \in 1..Len(sample_response) |->
        IF sample_response[k].resp.isstr THEN sample_response[k].resp ELSE NonText]
\* lines 252-268
SamplePreds(sample_response) ==
    IF sample_response = <<>>
    THEN [k \in 1..n_gens |-> NaN]
    ELSE process_response(AllRawResponse(sample_response))
ChunkRaises(chunk_results) ==
    \E k \in 1..Len(chunk_results) :
        chunk_results[k] # <<>> /\ ProcessRaises(AllRawResponse(chunk_results[k]))
\* a cost that counts the first response of a candidate only
CostOfFirst(sample_response) == sample_response[1].tot_cost
\* lines 269-274
CostOf(sample_response) ==
    SumSeq([k \in 1..Len(sample_response) |-> sample_response[k].tot_cost])
TokensOf(sample_response) ==
    SumSeq([k \in 1..Len(sample_response) |-> sample_response[k].tot_tokens])
\* line 249: 1 if x is not None else 0, x a list of results (never None)
IsNone(x) == DOMAIN x # 1..Len(x)
BoolPredReturned(chunk_results) ==
    [k \in 1..Len(chunk_results) |-> IF ~IsNone(chunk_results[k]) THEN 1 ELSE 0]
\* line 278
SuccessRate(bools) == Frac(SumSeq(bools), Len(bools))
\* a mean that counts a NaN entry as zero
MeanNaNAsZero(row) ==
    LET vals == SelectSeq(row, LAMBDA x : ~IsNaN(x))
    IN  Frac(SumSeq([k \in 1..Len(vals) |-> vals[k].num]), Len(row))
\* line 280: np.nanmean over one row
NanMean(row) ==
    LET vals == SelectSeq(row, LAMBDA x : ~IsNaN(x))
    IN  IF vals = <<>> THEN NaN
        ELSE Frac(SumSeq([k \in 1..Len(vals) |-> vals[k].num]), Len(vals))
MeanProbs(preds) == [k \in 1..Len(preds) |-> NanMean(preds[k])]

\* ------------------------------------------------------ select_query_point
\* np.argmax (0-based): NaN compares as the maximum, so the first NaN wins;
\* without NaN the first maximal entry wins
ArgMax(probs) ==
    IF \E k \in 1..Len(probs) : IsNaN(probs[k])
    THEN (CHOOSE k \in 1..Len(probs) :
            IsNaN(probs[k]) /\ \A j \in 1..(k - 1) : ~IsNaN(probs[j])) - 1
    ELSE (CHOOSE k \in 1..Len(probs) :
            /\ \A j \in 1..Len(probs) : ~FracLess(probs[k], probs[j])
            /\ \A j \in 1..(k - 1) : FracLess(probs[j], probs[k])) - 1

\* ------------------------------------------------------------------ state
NoRow == [lr |-> 0, depth |-> 0]
DefaultRateLimiter ==
    [max_tokens |-> DefaultMaxTokens, time_frame |-> DefaultTimeFrame,
     max_requests |-> DefaultMaxRequests, window |-> <<>>]

\* task_context["hyperparameter_constraints"] of the rounds: "lr" is log-scaled
LrLog == [p \in Params |-> IF p = "lr" THEN "log" ELSE "linear"]

\* The state after LLMGenerativeSM.__init__, with a candidate table of C rows
\* about to be handed to select_query_point.
EngineInit(T, C, limiter) ==
    /\ n_templates = T
    /\ n_gens = DefaultNGens
    /\ hyperparameter_constraints = LrLog
    /\ rate_limiter = limiter
    /\ input_candidates = CandidateTable(C)
    /\ candidate_configs = <<>>
    /\ query_examples = <<>>
    /\ pc = "idle"
    /\ chunk_start = 0
    /\ tasks = <<>>
    /\ all_preds = <<>>
    /\ bool_pred_returned = <<>>
    /\ tot_cost = 0
    /\ tot_tokens = 0
    /\ mean_probs = <<>>
    /\ success_rate = NaN
    /\ best_point_index = -1
    /\ best_point = NoRow
    /\ error = "none"
    /\ llm_calls = <<>>
    /\ now = 0

\* no function is applied on its own
FnIdle ==
    /\ fn = "none"
    /\ arg = <<>>
    /\ ret = <<>>

NoInstance == [exists |-> FALSE, initialized |-> FALSE, inits |-> 0,
               observed_configs |-> <<>>, observed_fvals |-> <<>>]
NoTrial == [number |-> -1, params |-> NoRow, answered_by |-> "nobody"]

\* The state after Sampler.__init__ (lines 32-55); host is "direct" when
\* select_query_point is called on the surrogate directly, without a study.
SamplerInit(N, space, host) ==
    /\ n_initial_samples = N
    /\ search_space = space
    /\ init_configs = [set |-> FALSE, rows |-> <<>>]
    /\ LLAMBO_instance = NoInstance
    /\ host_pc = host
    /\ trial = NoTrial
    /\ study_trials = <<>>
    /\ sampler_error = "none"

Init ==
    \E T \in 1..MaxTemplates, C \in 1..MaxCand :
        /\ T * C <= MaxQueries
        /\ EngineInit(T, C, DefaultRateLimiter)
        /\ SamplerInit(0, "none", "direct")
        /\ FnIdle

\* ---------------------------------------------------------------- actions
round_config == <<n_templates, n_gens, hyperparameter_constraints, input_candidates>>
predict_out == <<mean_probs, success_rate, best_point_index, best_point>>
predict_acc == <<all_preds, bool_pred_returned, tot_cost, tot_tokens>>

Finished(t) == t.status \in {"done", "raised"}

\* select_query_point up to the first suspension: lines 454-468, then
\* _evaluate_candidate_points 314-336, _predict 236-247 and
\* _generate_concurrently 160-168 for the first chunk
BeginRound ==
    /\ pc = "idle"
    /\ candidate_configs' = _warp_candidate_points(input_candidates)
    /\ query_examples' = [k \in 1..Len(input_candidates) |-> [Q |-> candidate_configs'[k]]]
    /\ chunk_start' = 0
    /\ tasks' = CreateTasks(n_templates, Chunk(query_examples', 0))
    /\ all_preds' = <<>>
    /\ bool_pred_returned' = <<>>
    /\ tot_cost' = 0
    /\ tot_tokens' = 0
    /\ pc' = "gather"
    /\ UNCHANGED <<fn_vars, round_config, rate_limiter, predict_out, error, llm_calls, now>>

\* select_query_point called on the surrogate directly
SelectQueryPoint ==
    /\ host_pc = "direct"
    /\ BeginRound
    /\ UNCHANGED sampler_vars

\* _async_generate, lines 122-133: the task at the head of the ready queue runs
\* and calls OpenAI_instance.ask.  The call is synchronous: the event loop is
\* blocked until it returns, so no other task starts meanwhile.  No acquire on
\* self.rate_limiter is made.
CallStart(k) ==
    /\ pc = "gather"
    /\ tasks[k].status = "created"
    /\ \A j \in 1..(k - 1) : Finished(tasks[j])
    /\ tasks' = [tasks EXCEPT ![k].status = "calling"]
    /\ llm_calls' = Append(llm_calls,
            [template |-> tasks[k].template, Q |-> tasks[k].Q, time |-> now,
             outcome |-> "pending", resp |-> NonText, tot_cost |-> 0])
    /\ UNCHANGED <<fn_vars, sampler_vars, round_config, rate_limiter, candidate_configs, query_examples,
                   pc, chunk_start, predict_acc, predict_out, error, now>>

\* lines 133-136: ask returns (resp, tot_cost); the task returns its tuple
CallReturn(k) ==
    /\ pc = "gather"
    /\ tasks[k].status = "calling"
    /\ \E resp \in Responses :
        /\ tasks' = [tasks EXCEPT ![k].status = "done", ![k].resp = resp,
                                  ![k].tot_cost = CallCost(tasks[k].template),
                                  ![k].tot_tokens = PlaceholderTokens]
        /\ llm_calls' = [llm_calls EXCEPT ![Len(llm_calls)].outcome = "returned",
                                          ![Len(llm_calls)].resp = resp,
                                          ![Len(llm_calls)].tot_cost =
                                              CallCost(tasks[k].template)]
    /\ UNCHANGED <<fn_vars, sampler_vars, round_config, rate_limiter, candidate_configs, query_examples,
                   pc, chunk_start, predict_acc, predict_out, error, now>>

\* line 133: ask raises (network or service failure); nothing catches it in
\* _async_generate, so the task ends with the exception
CallRaise(k) ==
    /\ pc = "gather"
    /\ tasks[k].status = "calling"
    /\ tasks' = [tasks EXCEPT ![k].status = "raised"]
    /\ llm_calls' = [llm_calls EXCEPT ![Len(llm_calls)].outcome = "raised"]
    /\ UNCHANGED <<fn_vars, sampler_vars, round_config, rate_limiter, candidate_configs, query_examples,
                   pc, chunk_start, predict_acc, predict_out, error, now>>

AllFinished == \A k \in 1..Len(tasks) : Finished(tasks[k])
SomeRaised == \E k \in 1..Len(tasks) : tasks[k].status = "raised"

\* line 168: asyncio.gather without return_exceptions re-raises the first
\* exception of a task; _generate_concurrently, _predict,
\* _evaluate_candidate_points, asyncio.run and select_query_point let it pass
GatherRaise ==
    /\ pc = "gather"
    /\ AllFinished
    /\ SomeRaised
    /\ pc' = "raised"
    /\ error' = "query error"
    /\ UNCHANGED <<fn_vars, sampler_vars, round_config, rate_limiter, candidate_configs, query_examples,
                   chunk_start, tasks, predict_acc, predict_out, llm_calls, now>>

\* what _predict holds once the chunk in flight is aggregated (lines 249-275)
ChunkResults == Regroup(tasks, Len(Chunk(query_examples, chunk_start)))
PredsAfter == all_preds \o [k \in 1..Len(ChunkResults) |-> SamplePreds(ChunkResults[k])]
BoolsAfter == bool_pred_returned \o BoolPredReturned(ChunkResults)
CostAfter ==
    tot_cost + SumSeq([k \in 1..Len(ChunkResults) |->
                         IF ChunkResults[k] = <<>> THEN 0 ELSE CostOf(ChunkResults[k])])
TokensAfter ==
    tot_tokens + SumSeq([k \in 1..Len(ChunkResults) |->
                         IF ChunkResults[k] = <<>> THEN 0 ELSE TokensOf(ChunkResults[k])])

\* line 268: process_response raises ValueError on a matched group that is no
\* float literal; nothing catches it up to select_query_point
PredictRaise ==
    /\ pc = "gather"
    /\ AllFinished
    /\ ~SomeRaised
    /\ ChunkRaises(ChunkResults)
    /\ pc' = "raised"
    /\ error' = "ValueError"
    /\ UNCHANGED <<fn_vars, sampler_vars, round_config, rate_limiter, candidate_configs, query_examples,
                   chunk_start, tasks, predict_acc, predict_out, llm_calls, now>>

\* lines 168-176 and 249-275 for the chunk in flight, then lines 242-247 and
\* 160-168 for the next chunk
NextChunk ==
    /\ pc = "gather"
    /\ AllFinished
    /\ ~SomeRaised
    /\ ~ChunkRaises(ChunkResults)
    /\ chunk_start + ChunkSize < Len(query_examples)
    /\ all_preds' = PredsAfter
    /\ bool_pred_returned' = BoolsAfter
    /\ tot_cost' = CostAfter
    /\ tot_tokens' = TokensAfter
    /\ chunk_start' = chunk_start + ChunkSize
    /\ tasks' = CreateTasks(n_templates, Chunk(query_examples, chunk_start'))
    /\ UNCHANGED <<fn_vars, sampler_vars, round_config, rate_limiter, candidate_configs, query_examples,
                   pc, predict_out, error, llm_calls, now>>

\* lines 168-176 and 249-275 for the last chunk, lines 277-282, then
\* _evaluate_candidate_points 337-342 and select_query_point 470-476
PredictReturn ==
    /\ pc = "gather"
    /\ AllFinished
    /\ ~SomeRaised
    /\ ~ChunkRaises(ChunkResults)
    /\ ~(chunk_start + ChunkSize < Len(query_examples))
    /\ all_preds' = PredsAfter
    /\ bool_pred_returned' = BoolsAfter
    /\ tot_cost' = CostAfter
    /\ tot_tokens' = TokensAfter
    /\ success_rate' = SuccessRate(bool_pred_returned')
    /\ mean_probs' = MeanProbs(all_preds')
    /\ best_point_index' = ArgMax(mean_probs')
    /\ candidate_configs' = _unwarp_candidate_points(candidate_configs)
    /\ best_point' = candidate_configs'[best_point_index' + 1]
    /\ pc' = "returned"
    /\ UNCHANGED <<fn_vars, sampler_vars, round_config, rate_limiter, query_examples, chunk_start, tasks,
                   error, llm_calls, now>>

Next ==
    \/ SelectQueryPoint
    \/ \E k \in 1..Len(tasks) : CallStart(k)
    \/ \E k \in 1..Len(tasks) : CallReturn(k)
    \/ \E k \in 1..Len(tasks) : CallRaise(k)
    \/ GatherRaise
    \/ PredictRaise
    \/ NextChunk
    \/ PredictReturn

Spec == Init /\ [][Next]_vars

\* The steps the event loop takes on its own: it runs a ready task, and it
\* resumes _generate_concurrently once every task of the chunk has finished.
\* When ask returns or raises is up to the service: nothing in
\* _async_generate bounds the wait (no timeout, no asyncio.wait_for).
EventLoopStep ==
    \/ SelectQueryPoint
    \/ \E k \in 1..Len(tasks) : CallStart(k)
    \/ GatherRaise
    \/ PredictRaise
    \/ NextChunk
    \/ PredictReturn

\* A round in which the event loop never idles while it has a step to take;
\* a call may stay unanswered for ever.
SpecLive == Init /\ [][Next]_vars /\ WF_vars(EventLoopStep)

\* ------------------------------------------------- rounds against the clock
\* Time passes between the steps of the event loop and while a call is awaited.
Tick ==
    /\ pc \in {"idle", "gather"}
    /\ now + TickStep <= MaxTime
    /\ now' = now + TickStep
    /\ UNCHANGED <<fn_vars, sampler_vars, round_config, rate_limiter, candidate_configs, query_examples,
                   pc, chunk_start, tasks, predict_acc, predict_out, error, llm_calls>>

\* rate_limiter=RateLimiter(...) handed to __init__ with small maxima
SmallRateLimiter ==
    [max_tokens |-> SmallLimit * PlaceholderTokens, time_frame |-> DefaultTimeFrame,
     max_requests |-> SmallLimit, window |-> <<>>]

InitRate ==
    \E C \in 1..RateCand, limiter \in {DefaultRateLimiter, SmallRateLimiter} :
        /\ EngineInit(1, C, limiter)
        /\ SamplerInit(0, "none", "direct")
        /\ FnIdle

\* RateCand candidates fit one chunk of _predict, so a round of SpecRate has no
\* second chunk to move to.
NextRate ==
    \/ SelectQueryPoint
    \/ \E k \in 1..Len(tasks) : CallStart(k)
    \/ \E k \in 1..Len(tasks) : CallReturn(k)
    \/ \E k \in 1..Len(tasks) : CallRaise(k)
    \/ GatherRaise
    \/ PredictRaise
    \/ PredictReturn
    \/ Tick

SpecRate == InitRate /\ [][NextRate]_vars

\* ------------------------------------------------------- the sampler adapter
\* The host framework runs the trials of a study one after the other: it
\* numbers a trial by the count of the trials before it (from 0), asks
\* sample_relative for the trial's parameters, runs the objective and reports
\* the outcome to after_trial.
TrialNumber == Len(study_trials)
\* The search space handed to sample_relative: the one given at construction,
\* else the intersection search space of the completed trials, which is empty
\* until a trial has completed.
SpaceNonEmpty ==
    \/ search_space = "given"
    \/ \E k \in 1..Len(study_trials) : study_trials[k].state = "COMPLETE"

\* the configurations one parameter assignment is drawn from
ConfigDomain == {CandidateTable(SamplerCand)[k] : k \in 1..SamplerCand}
\* generate_random_samples(search_space, num_samples), lines 188-208
RandomSamples(num_samples) == [1..num_samples -> ConfigDomain]

\* the terminal state and values the host reports to after_trial
Value(v) == [none |-> FALSE, v |-> v]
NoValue == [none |-> TRUE, v |-> 0]
TrialOutcomes ==
    { [state |-> "COMPLETE", values |-> Value(1)],
      [state |-> "COMPLETE", values |-> Value(2)],
      [state |-> "COMPLETE", values |-> NoValue],
      [state |-> "FAIL", values |-> NoValue],
      [state |-> "PRUNED", values |-> Value(1)] }

\* LLAMBO(task_context, ...), lines 92-104: a surrogate with empty tables
NewInstance == [exists |-> TRUE, initialized |-> FALSE, inits |-> 0,
                observed_configs |-> <<>>, observed_fvals |-> <<>>]
\* LLAMBO._initialize(init_configs, observed_configs, observed_fvals)
\* inits counts the calls
_initialize(instance) == [instance EXCEPT !.initialized = TRUE, !.inits = @ + 1]
\* LLAMBO.update_history(params, value)
update_history(instance, params, value) ==
    [instance EXCEPT !.observed_configs = Append(@, params),
                     !.observed_fvals = Append(@, value)]

\* seq[i] of Python, i from -len to len - 1
PyIndexOK(seq, i) == -Len(seq) <= i /\ i < Len(seq)
PyIndex(seq, i) == IF i < 0 THEN seq[Len(seq) + i + 1] ELSE seq[i + 1]

\* a warm-up test that holds for the first and the last warm-up trial only
InWarmupEnds(number) == number = 1 \/ number = n_initial_samples
\* line 153: trial.number <= self.n_initial_samples
InWarmup(number) == number <= n_initial_samples

\* an update test that looks at the values only, not at the state
HasValues(state, values) == ~values.none
\* line 185: state == TrialState.COMPLETE and values is not None
CompleteWithValues(state, values) == state = "COMPLETE" /\ ~values.none

\* sample_relative, lines 148-149: an empty search space; the host then draws
\* the trial's parameters itself (sample_independent)
SampleRelativeEmpty ==
    /\ host_pc = "between"
    /\ TrialNumber < MaxTrials
    /\ ~SpaceNonEmpty
    /\ \E row \in ConfigDomain :
          trial' = [number |-> TrialNumber, params |-> row, answered_by |-> "independent"]
    /\ host_pc' = "running"
    /\ UNCHANGED <<fn_vars, engine_vars, n_initial_samples, search_space, init_configs,
                   LLAMBO_instance, study_trials, sampler_error>>

\* sample_relative, lines 151-162: trial.number <= n_initial_samples
SampleRelativeWarmup ==
    /\ host_pc = "between"
    /\ TrialNumber < MaxTrials
    /\ SpaceNonEmpty
    /\ InWarmup(TrialNumber)
    /\ search_space' = "given"
    /\ IF TrialNumber = 1
       THEN /\ \E rows \in RandomSamples(n_initial_samples) :
                  init_configs' = [set |-> TRUE, rows |-> rows]
            /\ LLAMBO_instance' = NewInstance
       ELSE UNCHANGED <<init_configs, LLAMBO_instance>>
    /\ init_configs'.set
    /\ PyIndexOK(init_configs'.rows, TrialNumber - 1)
    /\ trial' = [number |-> TrialNumber,
                 params |-> PyIndex(init_configs'.rows, TrialNumber - 1),
                 answered_by |-> "warmup"]
    /\ host_pc' = "running"
    /\ UNCHANGED <<fn_vars, engine_vars, n_initial_samples, study_trials, sampler_error>>

\* sample_relative raises AttributeError: line 162 reads self.init_configs,
\* which only the trial numbered 1 sets (lines 154-161); lines 166 and 108 call
\* a method of self.LLAMBO_instance, which is None until then
SampleRelativeAttributeError ==
    /\ host_pc = "between"
    /\ TrialNumber < MaxTrials
    /\ SpaceNonEmpty
    /\ \/ /\ InWarmup(TrialNumber)
          /\ TrialNumber # 1
          /\ ~init_configs.set
       \/ /\ ~InWarmup(TrialNumber)
          /\ ~LLAMBO_instance.exists
    /\ search_space' = "given"
    /\ sampler_error' = "AttributeError"
    /\ host_pc' = "aborted"
    /\ UNCHANGED <<fn_vars, engine_vars, n_initial_samples, init_configs, LLAMBO_instance,
                   trial, study_trials>>

\* sample_relative, lines 164-172, up to the first suspension of the query
\* round that LLAMBO.sample_configurations starts with select_query_point
SampleRelativeGuided ==
    /\ host_pc = "between"
    /\ TrialNumber < MaxTrials
    /\ SpaceNonEmpty
    /\ ~InWarmup(TrialNumber)
    /\ LLAMBO_instance.exists
    /\ search_space' = "given"
    /\ LLAMBO_instance' = IF TrialNumber = n_initial_samples + 1
                          THEN _initialize(LLAMBO_instance) ELSE LLAMBO_instance
    /\ BeginRound
    /\ trial' = [number |-> TrialNumber, params |-> NoRow, answered_by |-> "surrogate"]
    /\ host_pc' = "round"
    /\ UNCHANGED <<n_initial_samples, init_configs, study_trials, sampler_error>>

\* a return that records the selected point in the tables itself
SampleRelativeReturnRecording ==
    /\ host_pc = "round"
    /\ pc = "returned"
    /\ trial' = [trial EXCEPT !.params = best_point]
    /\ LLAMBO_instance' = update_history(LLAMBO_instance, best_point, 0)
    /\ host_pc' = "running"
    /\ pc' = "idle"
    /\ candidate_configs' = <<>>
    /\ query_examples' = <<>>
    /\ tasks' = <<>>
    /\ all_preds' = <<>>
    /\ bool_pred_returned' = <<>>
    /\ mean_probs' = <<>>
    /\ success_rate' = NaN
    /\ best_point_index' = -1
    /\ best_point' = NoRow
    /\ UNCHANGED <<fn_vars, round_config, rate_limiter, chunk_start, tot_cost, tot_tokens,
                   error, llm_calls, now, n_initial_samples, search_space,
                   init_configs, study_trials, sampler_error>>
\* lines 172-174: the round has returned its best point
SampleRelativeReturn ==
    /\ host_pc = "round"
    /\ pc = "returned"
    /\ trial' = [trial EXCEPT !.params = best_point]
    /\ host_pc' = "running"
    /\ pc' = "idle"
    /\ candidate_configs' = <<>>
    /\ query_examples' = <<>>
    /\ tasks' = <<>>
    /\ all_preds' = <<>>
    /\ bool_pred_returned' = <<>>
    /\ mean_probs' = <<>>
    /\ success_rate' = NaN
    /\ best_point_index' = -1
    /\ best_point' = NoRow
    /\ UNCHANGED <<fn_vars, round_config, rate_limiter, chunk_start, tot_cost, tot_tokens,
                   error, llm_calls, now, n_initial_samples, search_space,
                   init_configs, LLAMBO_instance, study_trials, sampler_error>>

\* line 172: the exception of the round leaves sample_relative
SampleRelativeRaise ==
    /\ host_pc = "round"
    /\ pc = "raised"
    /\ sampler_error' = error
    /\ host_pc' = "aborted"
    /\ UNCHANGED <<fn_vars, engine_vars, n_initial_samples, search_space, init_configs,
                   LLAMBO_instance, trial, study_trials>>

\* after_trial, lines 184-186, called by the host with the trial's outcome
AfterTrial ==
    /\ host_pc = "running"
    /\ \E o \in TrialOutcomes :
        /\ LLAMBO_instance' =
              IF LLAMBO_instance.exists
              THEN IF CompleteWithValues(o.state, o.values)
                   THEN update_history(LLAMBO_instance, trial.params, o.values.v)
                   ELSE LLAMBO_instance
              ELSE LLAMBO_instance
        /\ study_trials' = Append(study_trials,
              [number |-> trial.number, params |-> trial.params,
               answered_by |-> trial.answered_by,
               state |-> o.state, values |-> o.values])
    /\ host_pc' = "between"
    /\ UNCHANGED <<fn_vars, engine_vars, n_initial_samples, search_space, init_configs,
                   trial, sampler_error>>

InitSampler ==
    \E N \in 0..MaxInitial, space \in {"given", "none"} :
        /\ EngineInit(1, SamplerCand, DefaultRateLimiter)
        /\ SamplerInit(N, space, "between")
        /\ FnIdle

NextSampler ==
    \/ SampleRelativeEmpty
    \/ SampleRelativeWarmup
    \/ SampleRelativeAttributeError
    \/ SampleRelativeGuided
    \/ SampleRelativeReturn
    \/ SampleRelativeRaise
    \/ AfterTrial
    \/ \E k \in 1..Len(tasks) : CallStart(k)
    \/ \E k \in 1..Len(tasks) : CallReturn(k)
    \/ \E k \in 1..Len(tasks) : CallRaise(k)
    \/ GatherRaise
    \/ PredictRaise
    \/ PredictReturn

SpecSampler == InitSampler /\ [][NextSampler]_vars

\* ------------------------------------------- process_response on its own
\* The raw responses process_response may be handed: texts of up to MaxTokens
\* tokens, "word" standing for any text the pattern does not match, and a
\* non-text payload.
Tokens == DelimitedTokens \cup {"word"}
Texts == {Text(toks) : toks \in UNION {[1..m -> Tokens] : m \in 0..MaxTokens}}
RawResponses == Texts \cup {NonText}

InitParse ==
    /\ EngineInit(1, 1, DefaultRateLimiter)
    /\ SamplerInit(0, "none", "direct")
    /\ fn = "none"
    /\ arg \in UNION {[1..m -> RawResponses] : m \in 0..MaxResponses}
    /\ ret = <<>>

\* process_response(all_raw_response) returns all_pred_probs (line 207)
ProcessResponseReturn ==
    /\ fn = "none"
    /\ ~ProcessRaises(arg)
    /\ ret' = process_response(arg)
    /\ fn' = "process_response"
    /\ UNCHANGED <<engine_vars, sampler_vars, arg>>

\* float(gen_pred[0]) raises ValueError (line 199); process_response has no
\* handler for it
ProcessResponseRaise ==
    /\ fn = "none"
    /\ ProcessRaises(arg)
    /\ fn' = "ValueError"
    /\ UNCHANGED <<engine_vars, sampler_vars, arg, ret>>

NextParse == ProcessResponseReturn \/ ProcessResponseRaise

SpecParse == InitParse /\ [][NextParse]_vars

\* ------------------------------------------------ warp / unwarp on their own
\* A configuration table of up to MaxRows rows; the values are powers of ten,
\* the numbers whose log10 is exact.
WarpValues == {10^k : k \in 0..MaxExp}
Tables == UNION {[1..m -> [Params -> WarpValues]] : m \in 0..MaxRows}

\* any scale for any hyperparameter, and any table
InitWarp ==
    /\ n_templates = 1
    /\ n_gens = DefaultNGens
    /\ hyperparameter_constraints \in [Params -> {"log", "linear"}]
    /\ rate_limiter = DefaultRateLimiter
    /\ input_candidates = <<>>
    /\ candidate_configs = <<>>
    /\ query_examples = <<>>
    /\ pc = "idle"
    /\ chunk_start = 0
    /\ tasks = <<>>
    /\ all_preds = <<>>
    /\ bool_pred_returned = <<>>
    /\ tot_cost = 0
    /\ tot_tokens = 0
    /\ mean_probs = <<>>
    /\ success_rate = NaN
    /\ best_point_index = -1
    /\ best_point = NoRow
    /\ error = "none"
    /\ llm_calls = <<>>
    /\ now = 0
    /\ SamplerInit(0, "none", "direct")
    /\ fn = "none"
    /\ arg \in Tables
    /\ ret = <<>>

\* _warp_candidate_points(configurations), lines 365-376
Warp ==
    /\ fn = "none"
    /\ ret' = _warp_candidate_points(arg)
    /\ fn' = "warped"
    /\ UNCHANGED <<engine_vars, sampler_vars, arg>>

\* _unwarp_candidate_points on the warped table, lines 399-410
Unwarp ==
    /\ fn = "warped"
    /\ ret' = _unwarp_candidate_points(ret)
    /\ fn' = "unwarped"
    /\ UNCHANGED <<engine_vars, sampler_vars, arg>>

NextWarp == Warp \/ Unwarp

SpecWarp == InitWarp /\ [][NextWarp]_vars

\* --------------------------------------- prepare_configurations on its own
\* generative_sm_utils.py.  The observed table and the fitness vector carry the
\* index 0 .. n-1 (select_query_point rebuilds the table from records, line
\* 376), so .loc[shuffled_indices] takes the rows by position.

\* np.percentile(observed_fvals, q), linear interpolation, times 100: the
\* value at position (n - 1) * q / 100 of the sorted vector
KthSmallest(fvals, k) ==
    CHOOSE v \in {fvals[i] : i \in 1..Len(fvals)} :
        /\ Cardinality({i \in 1..Len(fvals) : fvals[i] < v}) < k
        /\ k <= Cardinality({i \in 1..Len(fvals) : fvals[i] <= v})
Percentile100(fvals, q) ==
    LET pos == (Len(fvals) - 1) * q
        lo  == pos \div 100
        a   == KthSmallest(fvals, lo + 1)
        b   == IF lo + 2 <= Len(fvals) THEN KthSmallest(fvals, lo + 2) ELSE a
    IN  100 * a + (pos % 100) * (b - a)

\* top_pct is held in percent; 0.0, 0.25, 0.5 and 1.0 times 100 are exact, so
\* int(top_pct * 100) is the percentage itself
TopPcts == {0, 25, 50, 100}
IntPct(top_pct) == top_pct

\* labels that take the cutoff of the other direction for lower_is_better
LabelsSwapped(observed_fvals, lower_is_better, top_pct) ==
    [k \in 1..Len(observed_fvals) |->
        IF 100 * observed_fvals[k] < Percentile100(observed_fvals, 100 - IntPct(top_pct))
        THEN 1 ELSE 0]
\* lines 46-54
Labels(observed_fvals, lower_is_better, top_pct) ==
    [k \in 1..Len(observed_fvals) |->
        IF lower_is_better
        THEN IF 100 * observed_fvals[k] < Percentile100(observed_fvals, IntPct(top_pct))
             THEN 1 ELSE 0
        ELSE IF 100 * observed_fvals[k] > Percentile100(observed_fvals, 100 - IntPct(top_pct))
             THEN 1 ELSE 0]

\* np.random.permutation under a seed is one permutation of the index; no seed
\* is the value None
NoSeed == <<>>
IndexPermutations(n) == {f \in [1..n -> 1..n] : \A i, j \in 1..n : f[i] = f[j] => i = j}
\* lines 34-37 and 42
ShuffledConfigs(observed_configs, seed) ==
    IF seed = NoSeed THEN observed_configs
    ELSE [k \in 1..Len(observed_configs) |-> observed_configs[seed[k]]]
\* a shuffle that leaves the fitness values in their old order
UnshuffledFvals(observed_fvals, seed) == observed_fvals
\* lines 38-39 and 43-44
ShuffledFvals(observed_fvals, seed) ==
    IF seed = NoSeed THEN observed_fvals
    ELSE [k \in 1..Len(observed_fvals) |-> observed_fvals[seed[k]]]

\* lines 57-70: the row as "name: value, name: value"
RowString(row) == <<<<"lr", row.lr>>, <<"depth", row.depth>>>>
\* lines 27-78, observed_fvals given
prepare_configurations(lower_is_better, top_pct, observed_configs, observed_fvals, seed) ==
    LET configs == ShuffledConfigs(observed_configs, seed)
        fvals   == ShuffledFvals(observed_fvals, seed)
        labels  == Labels(fvals, lower_is_better, top_pct)
    IN  [k \in 1..Len(configs) |-> [Q |-> RowString(configs[k]), A |-> labels[k]]]

InitPrepare ==
    /\ EngineInit(1, 1, DefaultRateLimiter)
    /\ SamplerInit(0, "none", "direct")
    /\ fn = "none"
    /\ \E n \in 1..MaxObs :
          arg \in [observed_configs : {CandidateTable(n)},
                   observed_fvals : [1..n -> 1..MaxFval],
                   seed : IndexPermutations(n) \cup {NoSeed},
                   lower_is_better : BOOLEAN,
                   top_pct : TopPcts]
    /\ ret = <<>>

\* prepare_configurations(constraints, lower_is_better, top_pct, configs, fvals, seed)
PrepareConfigurations ==
    /\ fn = "none"
    /\ ret' = [examples |-> prepare_configurations(arg.lower_is_better, arg.top_pct,
                                arg.observed_configs, arg.observed_fvals, arg.seed),
               before |-> <<>>, top_pct_before |-> arg.top_pct]
    /\ fn' = "prepared"
    /\ UNCHANGED <<engine_vars, sampler_vars, arg>>

\* the same tables prepared again under another top-fraction threshold
PrepareConfigurationsAgain ==
    /\ fn = "prepared"
    /\ \E top_pct \in TopPcts :
          /\ arg' = [arg EXCEPT !.top_pct = top_pct]
          /\ ret' = [examples |-> prepare_configurations(arg.lower_is_better, top_pct,
                                      arg.observed_configs, arg.observed_fvals, arg.seed),
                     before |-> ret.examples, top_pct_before |-> arg.top_pct]
    /\ fn' = "prepared again"
    /\ UNCHANGED <<engine_vars, sampler_vars>>

NextPrepare == PrepareConfigurations \/ PrepareConfigurationsAgain

SpecPrepare == InitPrepare /\ [][NextPrepare]_vars

\* ------------------------------------------ _initialize_llambo on its own
\* A search space is an ordered dict of up to MaxParams named distributions:
\* float or int (each log or not), categorical, or any other BaseDistribution.
MaxParams == 2
Distributions ==
    [kind : {"float", "int"}, log : BOOLEAN]
        \cup [kind : {"categorical", "other"}, log : {FALSE}]
SearchSpaces ==
    {s \in UNION {[1..n -> [name : Params, dist : Distributions]] : n \in 1..MaxParams} :
        \A i, j \in 1..Len(s) : s[i].name = s[j].name => i = j}

\* a type test that lets every distribution through
SupportedAny(dist) == TRUE
\* lines 62-73: the three isinstance tests
Supported(dist) == dist.kind \in {"float", "int", "categorical"}
\* lines 63-73 and 78: [dtype, dist_type] of the constraint written for dist
ConstraintOf(dist) ==
    [dtype |-> dist.kind,
     dist_type |-> IF dist.kind = "categorical" THEN "categorical"
                   ELSE IF dist.log THEN "log" ELSE "linear"]
\* the position of the first distribution the loop rejects, 0 if there is none
FirstUnsupported(space) ==
    IF \E k \in 1..Len(space) : ~Supported(space[k].dist)
    THEN CHOOSE k \in 1..Len(space) :
            /\ ~Supported(space[k].dist)
            /\ \A j \in 1..(k - 1) : Supported(space[j].dist)
    ELSE 0
\* lines 60-78: self.hyperparameter_constraints after the first n parameters
ConstraintsOf(space, n) ==
    [k \in 1..n |-> [name |-> space[k].name, constraint |-> ConstraintOf(space[k].dist)]]

\* arg is the search space, ret is self.hyperparameter_constraints
InitInitialize ==
    /\ EngineInit(1, 1, DefaultRateLimiter)
    /\ SamplerInit(1, "given", "direct")
    /\ fn = "none"
    /\ arg \in SearchSpaces
    /\ ret = <<>>

\* _initialize_llambo, lines 57-104: every distribution is supported
InitializeLlamboReturn ==
    /\ fn = "none"
    /\ FirstUnsupported(arg) = 0
    /\ ret' = ConstraintsOf(arg, Len(arg))
    /\ LLAMBO_instance' = NewInstance
    /\ fn' = "_initialize_llambo"
    /\ UNCHANGED <<engine_vars, arg, n_initial_samples, search_space, init_configs,
                   host_pc, trial, study_trials, sampler_error>>

\* _initialize_llambo, lines 74-77: the loop raises at the first distribution
\* that is none of the three, before line 92 constructs the surrogate
InitializeLlamboRaise ==
    /\ fn = "none"
    /\ FirstUnsupported(arg) # 0
    /\ ret' = ConstraintsOf(arg, FirstUnsupported(arg) - 1)
    /\ sampler_error' = "ValueError"
    /\ fn' = "ValueError"
    /\ UNCHANGED <<engine_vars, arg, n_initial_samples, search_space, init_configs,
                   LLAMBO_instance, host_pc, trial, study_trials>>

NextInitialize == InitializeLlamboReturn \/ InitializeLlamboRaise

SpecInitialize == InitInitialize /\ [][NextInitialize]_vars

\* --------------------------------------- one round run twice, priced anew
\* The same candidate table goes through select_query_point twice.  The second
\* round is answered, call by call, with the texts of the first; the cost ask
\* reports for a call is free in both.  arg keeps the first round: its calls,
\* the chunk each was made in, its selection and its totals.  ret lists, call
\* by call, the chunk the round in progress is at.
MaxCost == 2
\* the texts that hold one parsable number
NumberTexts == {Text(<<"## 1 ##">>), Text(<<"## 0 ##">>)}

InitCost ==
    \E T \in 1..MaxTemplates, C \in 1..MaxCand :
        /\ T * C <= MaxQueries
        /\ EngineInit(T, C, DefaultRateLimiter)
        /\ SamplerInit(0, "none", "direct")
        /\ fn = "first"
        /\ arg = <<>>
        /\ ret = <<>>

\* lines 133-136: ask returns (resp, tot_cost) with any cost; tot_tokens is the
\* placeholder of line 134 whatever the call used
CallReturnPriced(k) ==
    /\ pc = "gather"
    /\ tasks[k].status = "calling"
    /\ \E resp \in NumberTexts, cost \in 1..MaxCost :
        /\ fn = "replay" /\ Len(llm_calls) <= Len(arg.calls)
              => resp = arg.calls[Len(llm_calls)].resp
        /\ tasks' = [tasks EXCEPT ![k].status = "done", ![k].resp = resp,
                                  ![k].tot_cost = cost,
                                  ![k].tot_tokens = PlaceholderTokens]
        /\ llm_calls' = [llm_calls EXCEPT ![Len(llm_calls)].outcome = "returned",
                                          ![Len(llm_calls)].resp = resp,
                                          ![Len(llm_calls)].tot_cost = cost]
    /\ ret' = Append(ret, chunk_start)
    /\ UNCHANGED <<fn, arg, sampler_vars, round_config, rate_limiter, candidate_configs,
                   query_examples, pc, chunk_start, predict_acc, predict_out, error, now>>

\* select_query_point (lines 412-476) called again on the same candidate table
\* once the first round has returned
Replay ==
    /\ fn = "first"
    /\ pc = "returned"
    /\ arg' = [calls |-> [k \in 1..Len(llm_calls) |->
                            [template |-> llm_calls[k].template, Q |-> llm_calls[k].Q,
                             resp |-> llm_calls[k].resp]],
               chunks |-> ret,
               best_point_index |-> best_point_index,
               best_point |-> best_point,
               tot_cost |-> tot_cost,
               tot_tokens |-> tot_tokens]
    /\ ret' = <<>>
    /\ fn' = "replay"
    /\ llm_calls' = <<>>
    /\ pc' = "idle"
    /\ candidate_configs' = <<>>
    /\ query_examples' = <<>>
    /\ tasks' = <<>>
    /\ all_preds' = <<>>
    /\ bool_pred_returned' = <<>>
    /\ mean_probs' = <<>>
    /\ success_rate' = NaN
    /\ best_point_index' = -1
    /\ best_point' = NoRow
    /\ UNCHANGED <<sampler_vars, round_config, rate_limiter, chunk_start, tot_cost,
                   tot_tokens, error, now>>

NextCost ==
    \/ SelectQueryPoint
    \/ \E k \in 1..Len(tasks) : CallStart(k)
    \/ \E k \in 1..Len(tasks) : CallReturnPriced(k)
    \/ NextChunk
    \/ PredictReturn
    \/ Replay

SpecCost == InitCost /\ [][NextCost]_vars

\* ================================================================== claims
RoundOver == pc \in {"returned", "raised"}
NQueries == n_templates * Len(input_candidates)
CallFailed(c) == c.outcome = "raised" \/ (c.outcome = "returned" /\ ~c.resp.isstr)
\* the calls the model received for candidate i of the input table
CallsFor(i) ==
    SelectSeq(llm_calls, LAMBDA c : c.Q = WarpRow(input_candidates[i]))
\* the values parsed from the answers to the calls made for candidate i
AnswersFor(i) ==
    LET got == SelectSeq(CallsFor(i), LAMBDA c : c.outcome = "returned")
    IN  [k \in 1..Len(got) |-> PredOf(got[k].resp)]

\* C1: a model call that raises or returns a non-text payload never aborts the
\* round: no query error leaves select_query_point, and a round that is over
\* has executed every (template, candidate) pair.
C1_FailedQueryAbsorbed ==
    (\E k \in 1..Len(llm_calls) : CallFailed(llm_calls[k]))
        => /\ error # "query error"
           /\ RoundOver => Len(llm_calls) = NQueries

\* C2: the selected candidate has a NaN probability only when every candidate
\* has.
C2_NaNNeverSelected ==
    pc = "returned" =>
        (IsNaN(mean_probs[best_point_index + 1])
            => \A k \in 1..Len(mean_probs) : IsNaN(mean_probs[k]))

\* C3: every model call is preceded by a granted acquire on the rate limiter
\* made for that query: the limiter has granted at least as many acquisitions
\* as calls were made.
C3_AcquireBeforeCall == Len(llm_calls) <= Len(rate_limiter.window)

\* C4: in every window of time_frame, the calls issued number at most
\* max_requests and their token cost is at most max_tokens.
WindowCalls(t) ==
    {k \in 1..Len(llm_calls) :
        t <= llm_calls[k].time /\ llm_calls[k].time < t + rate_limiter.time_frame}
C4_RateBound ==
    \A j \in 1..Len(llm_calls) :
        /\ Cardinality(WindowCalls(llm_calls[j].time)) <= rate_limiter.max_requests
        /\ Cardinality(WindowCalls(llm_calls[j].time)) * PlaceholderTokens
               <= rate_limiter.max_tokens

\* C5: the probability vector _predict returns has one entry per candidate, in
\* input order, and entry i is the NaN-ignoring mean of the values parsed from
\* the answers to the calls made for candidate i of the input table.
C5_OrderPreserved ==
    pc = "returned" =>
        /\ Len(mean_probs) = Len(input_candidates)
        /\ \A i \in 1..Len(input_candidates) :
              /\ Len(CallsFor(i)) = n_templates
              /\ FracEq(mean_probs[i], NanMean(AnswersFor(i)))
\* C5 witness: a round of two chunks has returned, with a candidate of the
\* second chunk at probability 1 and its chunk-local namesake of the first
\* chunk at probability 0.
C5_Witness ==
    /\ pc = "returned"
    /\ Len(mean_probs) > ChunkSize
    /\ FracEq(mean_probs[1], Frac(0, 1))
    /\ FracEq(mean_probs[ChunkSize + 1], Frac(1, 1))

\* C9: the success rate is (candidates with at least one non-missing raw
\* response) / (candidates).
Answered(i) ==
    \E k \in 1..Len(CallsFor(i)) :
        CallsFor(i)[k].outcome = "returned" /\ CallsFor(i)[k].resp.isstr
C9_SuccessRate ==
    pc = "returned" =>
        FracEq(success_rate,
               Frac(Cardinality({i \in 1..Len(input_candidates) : Answered(i)}),
                    Len(input_candidates)))

\* C10: whatever the queries' outcomes, no exception leaves select_query_point,
\* and it returns one row of the candidate table.
C10_SelectionTotal ==
    /\ pc # "raised"
    /\ pc = "returned" =>
          \E i \in 1..Len(input_candidates) : best_point = input_candidates[i]

\* the rows of the observed-configuration table and the fitness vector
ObservedRows ==
    [k \in 1..Len(LLAMBO_instance.observed_configs) |->
        [params |-> LLAMBO_instance.observed_configs[k],
         fval |-> LLAMBO_instance.observed_fvals[k]]]
\* one row per trial that finished COMPLETE with a value, in trial order
CompletedRows ==
    LET done == SelectSeq(study_trials,
                          LAMBDA t : t.state = "COMPLETE" /\ ~t.values.none)
    IN  [k \in 1..Len(done) |-> [params |-> done[k].params, fval |-> done[k].values.v]]

\* C6: the observed tables hold exactly one row for every trial that finished
\* COMPLETE with a value, whichever branch of sample_relative answered it, the
\* first trial of the run included.
C6_FullHistory == ObservedRows = CompletedRows

\* C7: sample_relative, invoked with a non-empty search space, never raises.
C7_SampleRelativeReturns == sampler_error = "none"

\* the trials sample_relative has answered so far
AnsweredTrials ==
    {study_trials[k] : k \in 1..Len(study_trials)}
        \cup (IF host_pc \in {"running", "round"}
              THEN {[number |-> trial.number, params |-> trial.params,
                     answered_by |-> trial.answered_by,
                     state |-> "RUNNING", values |-> NoValue]}
              ELSE {})
\* C8: the trials answered with warm-up configurations are among the first
\* n_initial_samples trials of the run (numbers 0 .. n_initial_samples - 1),
\* and the next trial (number n_initial_samples) is the one that initialises
\* the surrogate and is answered by it.
C8_WarmupThenInit ==
    /\ \A t \in AnsweredTrials :
          /\ t.answered_by = "warmup" => t.number < n_initial_samples
          /\ t.answered_by = "surrogate" => t.number >= n_initial_samples
    /\ LLAMBO_instance.initialized =>
          \E t \in AnsweredTrials :
              t.answered_by = "surrogate" /\ t.number = n_initial_samples

\* C11: a call that never responds is timed out, so a round that has started is
\* eventually over: no call in flight blocks it for ever.
C11_RoundEventuallyOver == (pc = "gather") ~> RoundOver

\* the calls in flight: started, their response awaited
InFlight == {k \in 1..Len(tasks) : tasks[k].status = "calling"}
\* the queries of the chunk whose call has not started yet
NotStarted == {k \in 1..Len(tasks) : tasks[k].status = "created"}

\* C12: the calls of one chunk are logically concurrent: while a call is in
\* flight, the next query of the chunk can start its own call without waiting
\* for it to complete (so that two or more are in flight at once).
C12_CallsOverlap ==
    (pc = "gather" /\ InFlight # {} /\ NotStarted # {})
        => ENABLED (\E k \in 1..Len(tasks) : CallStart(k))

\* what the code does instead: one call in flight at any time
OneCallAtATime == Cardinality(InFlight) <= 1

\* the candidate of the input table a query was built from, and its chunk
CandOf(Q) == CHOOSE i \in 1..Len(input_candidates) : WarpRow(input_candidates[i]) = Q
ChunkOfCand(i) == (i - 1) \div ChunkSize
CompletedCallsFor(i) == SelectSeq(CallsFor(i), LAMBDA c : c.outcome # "pending")

\* C13: the queries dispatched at any time belong to one chunk of at most 5
\* consecutive candidates, so they number at most 5 x n_templates, and every
\* query of every earlier chunk has completed before they are dispatched.
C13_ChunksInSequence ==
    /\ Len(tasks) <= ChunkSize * n_templates
    /\ tasks # <<>> =>
          LET chunk == ChunkOfCand(CandOf(tasks[1].Q))
          IN  /\ \A k \in 2..Len(tasks) : ChunkOfCand(CandOf(tasks[k].Q)) = chunk
              /\ \A i \in 1..(chunk * ChunkSize) :
                    Len(CompletedCallsFor(i)) = n_templates
\* C13 witness: a query of the second chunk is in flight
C13_Witness ==
    /\ pc = "gather"
    /\ \E k \in InFlight : ChunkOfCand(CandOf(tasks[k].Q)) = 1

\* the answers to the calls made for candidate i that carry the number 1, and
\* those that carry the number 0: the parseable ones
OnesFor(i) ==
    Cardinality({k \in 1..Len(CallsFor(i)) :
        CallsFor(i)[k].outcome = "returned" /\ CallsFor(i)[k].resp = Text(<<"## 1 ##">>)})
ZerosFor(i) ==
    Cardinality({k \in 1..Len(CallsFor(i)) :
        CallsFor(i)[k].outcome = "returned" /\ CallsFor(i)[k].resp = Text(<<"## 0 ##">>)})

\* C14: the probability of a candidate is the sum of the values parsed from its
\* responses divided by the number of parseable responses (the unparseable ones
\* are left out, not counted as zero), and it is NaN exactly when the candidate
\* has no parseable response.
C14_MeanIgnoresNaN ==
    pc = "returned" =>
        \A i \in 1..Len(input_candidates) :
            LET parsed == OnesFor(i) + ZerosFor(i)
            IN  /\ IsNaN(mean_probs[i]) <=> parsed = 0
                /\ parsed > 0 =>
                      mean_probs[i].num * parsed = OnesFor(i) * mean_probs[i].den
\* C14 witness: a candidate with one response parsed to 1 and one unparseable
\* response, and a candidate with no parseable response at all
C14_Witness ==
    /\ pc = "returned"
    /\ \E i, j \in 1..Len(input_candidates) :
          /\ OnesFor(i) = 1 /\ ZerosFor(i) = 0 /\ Len(CallsFor(i)) = 2
          /\ OnesFor(j) + ZerosFor(j) = 0

\* candidate i has the maximal probability: it has one, and no candidate has a
\* larger one (a NaN is no probability: it sorts last)
IsMaximal(i) ==
    /\ ~IsNaN(mean_probs[i])
    /\ \A j \in 1..Len(mean_probs) : ~FracLess(mean_probs[i], mean_probs[j])
\* the first candidate with the maximal probability; the first candidate when
\* no candidate has a probability
FirstMaximal ==
    IF \E i \in 1..Len(mean_probs) : IsMaximal(i)
    THEN CHOOSE i \in 1..Len(mean_probs) :
            IsMaximal(i) /\ \A j \in 1..(i - 1) : ~IsMaximal(j)
    ELSE 1

\* C15: select_query_point returns the row of the input table, in original
\* scale, of the first candidate whose aggregated probability is maximal.
C15_ReturnsFirstMaximal ==
    pc = "returned" => best_point = input_candidates[FirstMaximal]

\* C16: a trial that ends in a state other than COMPLETE, or with no value,
\* leaves the observed-configuration table and the fitness vector as they were:
\* the step of after_trial that reports it appends nothing.
C16_UnfinishedNotRecorded ==
    [][ (/\ Len(study_trials') = Len(study_trials) + 1
         /\ LET t == study_trials'[Len(study_trials')]
            IN  t.state # "COMPLETE" \/ t.values.none)
        => /\ LLAMBO_instance'.observed_configs = LLAMBO_instance.observed_configs
           /\ LLAMBO_instance'.observed_fvals = LLAMBO_instance.observed_fvals ]_vars
\* C16 witness: with the surrogate in place, after_trial has been told of a
\* pruned trial that carries a value and of a COMPLETE trial without values
C16_Witness ==
    /\ LLAMBO_instance.exists
    /\ \E j, k \in 1..Len(study_trials) :
          /\ study_trials[j].answered_by # "independent"
          /\ study_trials[j].state = "PRUNED" /\ ~study_trials[j].values.none
          /\ study_trials[k].answered_by # "independent"
          /\ study_trials[k].state = "COMPLETE" /\ study_trials[k].values.none

\* C17: once a trial has been answered by the surrogate pipeline, no later
\* trial of the run is answered from the warm-up configurations.
C17_NoWayBack ==
    \A t1, t2 \in AnsweredTrials :
        (t1.number < t2.number /\ t1.answered_by = "surrogate")
            => t2.answered_by # "warmup"
\* C17 witness: a warm-up trial, then two trials answered by the surrogate
C17_Witness ==
    \E t0, t1, t2 \in AnsweredTrials :
        /\ t0.number < t1.number /\ t1.number < t2.number
        /\ t0.answered_by = "warmup"
        /\ t1.answered_by = "surrogate" /\ t2.answered_by = "surrogate"

\* the calls the model received for the pair (template, candidate i)
CallsOfPair(template, i) ==
    SelectSeq(llm_calls,
              LAMBDA c : c.template = template /\ c.Q = WarpRow(input_candidates[i]))

\* C18: no (template, candidate) pair is queried twice, and a round that is
\* over has issued exactly one call for each pair of the cross-product, T * C
\* calls in all.
C18_OneCallPerPair ==
    /\ \A template \in 1..n_templates : \A i \in 1..Len(input_candidates) :
          /\ Len(CallsOfPair(template, i)) <= 1
          /\ RoundOver => Len(CallsOfPair(template, i)) = 1
    /\ RoundOver => Len(llm_calls) = n_templates * Len(input_candidates)

\* the delimiter-wrapped tokens of a response text, by position
WrappedAt(raw_response) ==
    {k \in 1..Len(raw_response.toks) : raw_response.toks[k] \in DelimitedTokens}
\* what the claim has process_response give for one response: the number of
\* the one delimiter-wrapped token when it is a number, NaN otherwise
ExpectedPred(raw_response) ==
    IF raw_response.isstr /\ Cardinality(WrappedAt(raw_response)) = 1
    THEN LET tok == raw_response.toks[CHOOSE k \in WrappedAt(raw_response) : TRUE]
         IN  CASE tok = "## 1 ##" -> Frac(1, 1)
               [] tok = "## 0 ##" -> Frac(0, 1)
               [] OTHER -> NaN
    ELSE NaN

\* C19: process_response never raises, and it returns one entry per input
\* response, in input order: the parsed number for a text with exactly one
\* delimiter-wrapped numeric token, NaN for any other response.
C19_ParseTotal ==
    /\ fn # "ValueError"
    /\ fn = "process_response" =>
          /\ Len(ret) = Len(arg)
          /\ \A k \in 1..Len(arg) : ret[k] = ExpectedPred(arg[k])

\* the fields not flagged log-scale
Linear == {p \in Params : hyperparameter_constraints[p] # "log"}

\* C20: warp keeps the number and the order of the rows and leaves every field
\* not flagged log-scale as it is, and unwarp gives the table back: every
\* log-scaled field restored, every other field still unchanged.
C20_WarpRoundTrip ==
    /\ fn = "warped" =>
          /\ Len(ret) = Len(arg)
          /\ \A k \in 1..Len(arg) : \A p \in Linear : ret[k][p] = arg[k][p]
    /\ fn = "unwarped" => ret = arg
\* C20 witness: a table of two different rows with a log-scaled and a linear
\* field has made the round trip, the log-scaled field having been changed by
\* warp
C20_Witness ==
    /\ fn = "unwarped"
    /\ hyperparameter_constraints = LrLog
    /\ Len(arg) = 2
    /\ arg[1] # arg[2]
    /\ arg[1].lr = 100 /\ arg[1].depth = 10
    /\ ret[1].lr = 100

\* the few-shot examples that show observed row i
ExamplesOfRow(i) ==
    {k \in 1..Len(ret.examples) : ret.examples[k].Q = RowString(arg.observed_configs[i])}

\* C21: whatever the seed, each observed row appears exactly once among the
\* few-shot examples, with the label computed from that row's own fitness value
\* in the fitness vector as it was handed in.
C21_LabelsFollowRows ==
    fn \in {"prepared", "prepared again"} =>
        /\ Len(ret.examples) = Len(arg.observed_configs)
        /\ \A i \in 1..Len(arg.observed_configs) :
              /\ Cardinality(ExamplesOfRow(i)) = 1
              /\ \A k \in ExamplesOfRow(i) :
                    ret.examples[k].A =
                        Labels(arg.observed_fvals, arg.lower_is_better, arg.top_pct)[i]
\* C21 witness: three rows shuffled out of their order, not all of one label
C21_Witness ==
    /\ fn = "prepared"
    /\ arg.seed # NoSeed
    /\ Len(arg.observed_fvals) = 3
    /\ arg.seed[1] = 3
    /\ \E j, k \in 1..3 : ret.examples[j].A = 1 /\ ret.examples[k].A = 0

\* the number of examples labelled 1
Positives(examples) == Cardinality({k \in 1..Len(examples) : examples[k].A = 1})

\* C22: for one fitness vector and lower_is_better, a threshold p1 <= p2 labels
\* no more rows 1 than p2 does.
C22_LabelMonotone ==
    (fn = "prepared again" /\ arg.lower_is_better /\ ret.top_pct_before <= arg.top_pct)
        => Positives(ret.before) <= Positives(ret.examples)
\* C22 witness: the larger threshold labels more rows 1 than the smaller one
C22_Witness ==
    /\ fn = "prepared again"
    /\ arg.lower_is_better
    /\ ret.top_pct_before = 25 /\ arg.top_pct = 100
    /\ Positives(ret.before) = 1 /\ Positives(ret.examples) = 2

\* the label shown with observed row i
LabelOfRow(i) == ret.examples[CHOOSE k \in ExamplesOfRow(i) : TRUE].A
\* the rows whose fitness is the best of the vector in the configured direction
BestRows ==
    {i \in 1..Len(arg.observed_fvals) :
        \A j \in 1..Len(arg.observed_fvals) :
            IF arg.lower_is_better
            THEN arg.observed_fvals[i] <= arg.observed_fvals[j]
            ELSE arg.observed_fvals[i] >= arg.observed_fvals[j]}
\* row i lies beyond the percentile cutoff, on the better side of it
BeyondCutoff(i) ==
    IF arg.lower_is_better
    THEN 100 * arg.observed_fvals[i] < Percentile100(arg.observed_fvals, arg.top_pct)
    ELSE 100 * arg.observed_fvals[i] > Percentile100(arg.observed_fvals, 100 - arg.top_pct)

C23_UnsupportedRaises ==
    (fn # "none" /\ \E k \in 1..Len(arg) :
                        arg[k].dist.kind \notin {"float", "int", "categorical"})
        => /\ fn = "ValueError"
           /\ sampler_error = "ValueError"
           /\ ~LLAMBO_instance.exists
           /\ llm_calls = <<>>
\* C23 witness: a supported distribution followed by an unsupported one: the
\* call has raised after writing the first constraint, with no surrogate
C23_Witness ==
    /\ fn = "ValueError"
    /\ Len(arg) = 2
    /\ arg[1].dist.kind = "float" /\ arg[1].dist.log
    /\ arg[2].dist.kind = "other"
    /\ Len(ret) = 1 /\ ret[1].constraint.dist_type = "log"
    /\ ~LLAMBO_instance.exists

\* the costs ask reported for the calls answered so far
CostsReported ==
    LET got == SelectSeq(llm_calls, LAMBDA c : c.outcome = "returned")
    IN  [k \in 1..Len(got) |-> got[k].tot_cost]

\* C24: a round answered with the texts of an earlier round on the same
\* candidates, at other costs, makes the same calls in the same order and the
\* same chunks and selects the same candidate; the total cost a round returns
\* is the sum of the costs of its responses, and its token total is the
\* placeholder count per response.
C24_CostBlind ==
    /\ fn = "replay" =>
          /\ Len(llm_calls) <= Len(arg.calls)
          /\ \A k \in 1..Len(llm_calls) :
                /\ llm_calls[k].template = arg.calls[k].template
                /\ llm_calls[k].Q = arg.calls[k].Q
          /\ \A k \in 1..Len(ret) : ret[k] = arg.chunks[k]
          /\ pc = "returned" =>
                /\ Len(llm_calls) = Len(arg.calls)
                /\ best_point_index = arg.best_point_index
                /\ best_point = arg.best_point
    /\ fn \in {"first", "replay"} /\ pc = "returned" =>
          /\ tot_cost = SumSeq(CostsReported)
          /\ tot_tokens = PlaceholderTokens * Len(CostsReported)
\* C24 witness: six candidates, two chunks; the second round has returned at
\* another total cost than the first, with a candidate other than the first
\* selected
C24_Witness ==
    /\ fn = "replay"
    /\ pc = "returned"
    /\ Len(llm_calls) = 6
    /\ ret[6] = ChunkSize
    /\ tot_cost # arg.tot_cost
    /\ best_point_index = 2

\* the observed-configuration table and the fitness vector of the surrogate
ObservedTables == <<LLAMBO_instance.observed_configs, LLAMBO_instance.observed_fvals>>

\* C25: the observed tables change only in a step of after_trial, which
\* appends one row while no query batch is in flight; from the start of a
\* trial's select_query_point round to the return of its last query no row is
\* added or removed.
C25_TablesOnlyAfterTrial ==
    [][ObservedTables' # ObservedTables =>
          /\ host_pc = "running" /\ host_pc' = "between"
          /\ pc = "idle" /\ tasks = <<>>
          /\ \E row \in ConfigDomain, v \in {1, 2} :
                ObservedTables' = <<Append(LLAMBO_instance.observed_configs, row),
                                    Append(LLAMBO_instance.observed_fvals, v)>>]_vars
\* C25 witness: a query of a trial's round is awaiting its answer while the
\* tables hold the rows of two earlier trials, one of them surrogate-guided
C25_Witness ==
    /\ host_pc = "round"
    /\ \E k \in 1..Len(tasks) : tasks[k].status = "calling"
    /\ Len(LLAMBO_instance.observed_configs) = 2
    /\ \E k \in 1..Len(study_trials) :
          study_trials[k].answered_by = "surrogate" /\ study_trials[k].state = "COMPLETE"

\* a trial past warm-up has reached a method of the surrogate (_initialize at
\* line 166, sample_configurations at line 108) with no surrogate constructed
SurrogateMissing ==
    /\ host_pc = "aborted"
    /\ sampler_error = "AttributeError"
    /\ ~InWarmup(TrialNumber)

\* C27: in one run the surrogate is initialised at most once; every trial
\* answered by a surrogate-guided sample finds the surrogate constructed and
\* initialised exactly once; and no trial past warm-up asks for a
\* surrogate-guided sample with construction or initialisation skipped.
C27_InitialisedOnce ==
    /\ LLAMBO_instance.inits <= 1
    /\ \A t \in AnsweredTrials :
          t.answered_by = "surrogate"
              => LLAMBO_instance.exists /\ LLAMBO_instance.inits = 1
    /\ ~SurrogateMissing

====
